---- MODULE Spec2Model ----
(***************************************************************************)
(* mate_slideshow.py: build the background-slideshow xml of a directory of *)
(* images and stage the directory under /usr/share/backgrounds.            *)
(*                                                                         *)
(* A run is either the script's main() or a direct call of                 *)
(* create_xml_file() with arguments of the caller's choice.  The file      *)
(* system is a set of entries, one per existing path.  Operations of the   *)
(* file system succeed unless the code's own arguments make them fail      *)
(* (a missing directory, a directory given to shutil.copy, a file copied   *)
(* onto itself).                                                           *)
(***************************************************************************)
EXTENDS Integers, Sequences, FiniteSets, TLC

\* ------------------------------------------------------------- bounds
\* Durations are drawn from -1..MaxDuration.
MaxDuration == 1
\* The images directory holds at most MaxEntries entries.
MaxEntries == 3

\* ------------------------------------------------------------- paths
USR_BACKGROUNDS_PATH == "/usr/share/backgrounds"

\* argparse's default for an option that was not given.
None == "<None>"

Dir(parent, name) == [parent |-> parent, name |-> name]
FileName(stem, ext) == [stem |-> stem, ext |-> ext]
NoDir == Dir("", "")
NoName == FileName("", "")
NoPath == [dir |-> NoDir, name |-> NoName]

\* directory / name
JoinPath(dir, name) == [dir |-> dir, name |-> name]

\* The directories a run may be given as its images directory.
SourceDirs == {Dir("/home/user", "mydir"), Dir(USR_BACKGROUNDS_PATH, "mydir")}
\* The directories a direct caller of create_xml_file may name as target.
BuilderTargetDirs == {Dir("/dest", "mydir"), Dir(USR_BACKGROUNDS_PATH, "mydir")}
\* The values of -n: not given, empty, a name.
DirectoryNames == {None, "", "other"}

\* What the images directory may hold: images of the three extensions (two
\* of one extension), an upper-case extension, a text file, a file named as
\* the descriptor will be, and a subdirectory.
EntryUniverse ==
    { [name |-> FileName("a", "jpg"), kind |-> "file"],
      [name |-> FileName("a2", "jpg"), kind |-> "file"],
      [name |-> FileName("b", "png"), kind |-> "file"],
      [name |-> FileName("c", "jpeg"), kind |-> "file"],
      [name |-> FileName("d", "JPG"), kind |-> "file"],
      [name |-> FileName("notes", "txt"), kind |-> "file"],
      [name |-> FileName("mydir", "xml"), kind |-> "file"],
      [name |-> FileName("sub", ""), kind |-> "dir"] }

\* (image_duration, transition_duration) pairs given to a run.
DurationPairs ==
    ((-1 .. MaxDuration) \X (-1 .. MaxDuration)) \cup {<<5, 3>>}

\* ------------------------------------------------------------- file system
\* One entry of the file system: a file with its data, or a directory.  The
\* data of a file is named by the path it was first stored at (origin) or,
\* for a written descriptor, by its lines.
FsEntry(path, kind, origin, lines) ==
    [path |-> path, kind |-> kind, origin |-> origin, lines |-> lines]

Exists(f, p) == \E e \in f : e.path = p
Lookup(f, p) == CHOOSE e \in f : e.path = p
Listing(f, dir) == {e.path : e \in {x \in f : x.path.dir = dir}}

\* open(path, 'w') ... writelines(lines): the file is created or replaced.
WriteLines(f, p, lines) ==
    {e \in f : e.path # p} \cup {FsEntry(p, "file", NoPath, lines)}

\* The data of src stored at dst, replacing what was there.
CopyData(f, src, dst) ==
    {e \in f : e.path # dst}
        \cup {FsEntry(dst, "file", Lookup(f, src).origin, Lookup(f, src).lines)}

VARIABLES
    entry,                  \* "main" or "create_xml_file": what the run calls
    images_directory_path,  \* -i
    image_duration,         \* -d
    transition_duration,    \* -t
    directory_name,         \* -n
    target_directory_path,  \* main's local / create_xml_file's parameter
    fs,                     \* the file system's entries
    dirs,                   \* the directories that exist
    initial_fs,             \* fs and dirs when the run started
    initial_dirs,
    pc,                     \* the run's position
    error,                  \* the exception that ended the run, if any
    exit_status,            \* the process's exit status, -1 while running
    images,                 \* create_xml_file: glob_all_extensions' result
    xml_content,            \* create_xml_file: the lines it built
    pending,                \* main: entries the copy loop has yet to visit
    copied                  \* main: the sources given to shutil.copy, in order

vars == <<entry, images_directory_path, image_duration, transition_duration,
          directory_name, target_directory_path, fs, dirs, initial_fs,
          initial_dirs, pc, error, exit_status, images, xml_content, pending,
          copied>>

inputs == <<entry, images_directory_path, image_duration, transition_duration,
            directory_name, initial_fs, initial_dirs>>

NoError == "none"

\* ------------------------------------------------------------- glob
\* The orders in which a directory scan may yield the paths of S.
RECURSIVE Orderings(_)
Orderings(S) ==
    IF S = {} THEN {<<>>}
    ELSE UNION {{<<p>> \o rest : rest \in Orderings(S \ {p})} : p \in S}

\* path.glob('*.<file_extension>'): the entries of the directory whose name
\* ends in the extension, compared case-sensitively; files and directories.
Glob(f, path, file_extension) ==
    {p \in Listing(f, path) : p.name.ext = file_extension}

\* path.glob('*'): every entry of the directory.
GlobAll(f, path) == Listing(f, path)

extensions == <<"jpg", "jpeg", "png">>

\* The lists glob_all_extensions may return: the matches of each extension
\* in turn, each extension's matches in the order the scan yields them.
RECURSIVE glob_all_extensions_from(_, _, _, _)
glob_all_extensions_from(f, path, exts, k) ==
    IF k > Len(exts) THEN {<<>>}
    ELSE {first \o rest :
            first \in Orderings(Glob(f, path, exts[k])),
            rest \in glob_all_extensions_from(f, path, exts, k + 1)}

glob_all_extensions_swapped(f, path, exts) ==
    glob_all_extensions_from(f, path, <<exts[1], exts[3], exts[2]>>, 1)

glob_all_extensions(f, path, exts) ==
    glob_all_extensions_from(f, path, exts, 1)

\* ------------------------------------------------------------- pairing
pair_elements_no_wrap(elements) ==
    [item_index \in 1 .. Len(elements) |->
        <<elements[item_index],
          elements[IF item_index < Len(elements)
                   THEN item_index + 1 ELSE item_index]>>]

pair_elements_short(elements) ==
    [item_index \in 1 .. (Len(elements) - 1) |->
        <<elements[item_index], elements[item_index + 1]>>]

\* Each element with the one after it, the last with the first.
pair_elements(elements) ==
    [item_index \in 1 .. Len(elements) |->
        <<elements[item_index],
          elements[IF item_index < Len(elements)
                   THEN item_index + 1 ELSE 1]>>]

\* ------------------------------------------------------------- descriptor
\* One element of xml_content: a literal, or a template with the value its
\* f-string renders: a path, an integer, or a float (rendered with its
\* fractional part, 300.0; the integer without, 3).
Line(text, path, number, float) ==
    [text |-> text, path |-> path, number |-> number, float |-> float]
Literal(text) == Line(text, NoPath, 0, FALSE)

\* The initial xml section.  The year and month strings are adjacent
\* literals and make one element.
Header ==
    << Literal("<background>\n"),
       Literal("-\n"),
       Literal("<starttime>\n"),
       Literal("<year>2009</year>\n<month>08</month>\n"),
       Literal("<day>04</day>\n"),
       Literal("<hour>00</hour>\n"),
       Literal("<minute>00</minute>\n"),
       Literal("<second>00</second>\n"),
       Literal("</starttime>\n") >>

Terminator == << Literal("</background>\n") >>

image_xml_source_paths(image_path, next_image_path, duration, transition, target) ==
    << Literal("-\n"),
       Literal("<static>\n"),
       Line("<duration>{}</duration>\n", NoPath, duration * 60, TRUE),
       Line("<file>{}</file>\n", image_path, 0, FALSE),
       Literal("</static>\n"),
       Literal("-\n"),
       Literal("<transition>\n"),
       Line("<duration>{}</duration>\n", NoPath, transition, FALSE),
       Line("<from>{}</from>\n", image_path, 0, FALSE),
       Line("<to>{}</to>\n", next_image_path, 0, FALSE),
       Literal("</transition>\n") >>

\* The static and the transition section of one image.
image_xml(image_path, next_image_path, duration, transition, target) ==
    << Literal("-\n"),
       Literal("<static>\n"),
       Line("<duration>{}</duration>\n", NoPath, duration * 60, TRUE),
       Line("<file>{}</file>\n", JoinPath(target, image_path.name), 0, FALSE),
       Literal("</static>\n"),
       Literal("-\n"),
       Literal("<transition>\n"),
       Line("<duration>{}</duration>\n", NoPath, transition, FALSE),
       Line("<from>{}</from>\n", JoinPath(target, image_path.name), 0, FALSE),
       Line("<to>{}</to>\n", JoinPath(target, next_image_path.name), 0, FALSE),
       Literal("</transition>\n") >>

\* xml_content.extend(image_xml) for each pair, in the pairs' order.
RECURSIVE Sections(_, _, _, _, _)
Sections(pairs, k, duration, transition, target) ==
    IF k > Len(pairs) THEN <<>>
    ELSE image_xml(pairs[k][1], pairs[k][2], duration, transition, target)
            \o Sections(pairs, k + 1, duration, transition, target)

\* The lines create_xml_file builds from the enumerated images.
XmlContent(listing, duration, transition, target) ==
    Header \o Sections(pair_elements(listing), 1, duration, transition, target)
           \o Terminator

\* target_directory_path / (target_directory_path.name + '.xml')
xml_file_path(target) == JoinPath(target, FileName(target.name, "xml"))

write_xml_file_clearing(f, target, lines) ==
    {e \in f : e.path.dir # target}
        \cup {FsEntry(xml_file_path(target), "file", NoPath, lines)}

\* with open(xml_file_path, 'w') as xml_file: xml_file.writelines(xml_content)
write_xml_file(f, target, lines) ==
    WriteLines(f, xml_file_path(target), lines)

\* ------------------------------------------------------------- validation
ValidationError_duration_zero(is_dir, duration, transition) ==
    IF ~is_dir THEN "ImageDirectoryPathError"
    ELSE IF duration < 0 THEN "ImageDurationError"
    ELSE IF transition < 0 THEN "TransitionDurationError"
    ELSE NoError

ValidationError_no_transition(is_dir, duration, transition) ==
    IF ~is_dir THEN "ImageDirectoryPathError"
    ELSE IF duration <= 0 THEN "ImageDurationError"
    ELSE NoError

\* parse_arguments' validation: the exception it raises, or none.
ValidationError(is_dir, duration, transition) ==
    IF ~is_dir THEN "ImageDirectoryPathError"
    ELSE IF duration <= 0 THEN "ImageDurationError"
    ELSE IF transition < 0 THEN "TransitionDurationError"
    ELSE NoError

\* arguments.directory_name or arguments.images_directory_path.name
images_directory_name(name, path) ==
    IF name \in {None, ""} THEN path.name ELSE name

\* Path(USR_BACKGROUNDS_PATH, images_directory_name)
TargetDirectoryPath(name, path) ==
    Dir(USR_BACKGROUNDS_PATH, images_directory_name(name, path))

\* ------------------------------------------------------------- the run
\* The entries of the images directory when it holds `content`.
SourceEntries(path, content) ==
    {FsEntry(JoinPath(path, c.name), c.kind, JoinPath(path, c.name), <<>>) :
        c \in content}

Contents == {S \in SUBSET EntryUniverse : Cardinality(S) <= MaxEntries}

\* The state before the run: the arguments, and a file system in which the
\* images path is a directory with some content or is no directory, and the
\* target directory exists or does not.
Init ==
    /\ entry \in {"main", "create_xml_file"}
    /\ images_directory_path \in SourceDirs
    /\ \E durations \in DurationPairs :
        /\ image_duration = durations[1]
        /\ transition_duration = durations[2]
    /\ directory_name \in
        IF entry = "main" THEN DirectoryNames ELSE {None}
    /\ target_directory_path \in
        IF entry = "main" THEN {NoDir} ELSE BuilderTargetDirs
    /\ \E is_dir \in BOOLEAN, target_exists \in BOOLEAN :
        LET target == IF entry = "main"
                      THEN TargetDirectoryPath(directory_name,
                                               images_directory_path)
                      ELSE target_directory_path
        IN  /\ target = images_directory_path => target_exists = is_dir
            /\ initial_dirs = (IF is_dir THEN {images_directory_path} ELSE {})
                              \cup (IF target_exists THEN {target} ELSE {})
            /\ \E content \in (IF is_dir THEN Contents ELSE {{}}) :
                initial_fs = SourceEntries(images_directory_path, content)
    /\ fs = initial_fs
    /\ dirs = initial_dirs
    /\ pc = entry
    /\ error = NoError
    /\ exit_status = -1
    /\ images = <<>>
    /\ xml_content = <<>>
    /\ pending = {}
    /\ copied = <<>>

\* An exception leaves the function; nothing catches it.
Raise(exception) ==
    /\ pc' = "raised"
    /\ error' = exception
    /\ exit_status' = IF entry = "main" THEN 1 ELSE exit_status

\* main, line 12: parse_arguments() and its validation.
ParseArguments ==
    /\ pc = "main"
    /\ LET exception ==
            ValidationError(images_directory_path \in dirs,
                            image_duration, transition_duration)
       IN  IF exception # NoError
           THEN Raise(exception)
           ELSE /\ pc' = "mkdir"
                /\ UNCHANGED <<error, exit_status>>
    /\ UNCHANGED <<inputs, target_directory_path, fs, dirs, images,
                   xml_content, pending, copied>>

\* main, lines 13-20: the target directory under /usr/share/backgrounds is
\* named and created; no error if it exists.
Mkdir ==
    /\ pc = "mkdir"
    /\ target_directory_path' =
        TargetDirectoryPath(directory_name, images_directory_path)
    /\ dirs' = dirs \cup {target_directory_path'}
    /\ pc' = "create_xml_file"
    /\ UNCHANGED <<inputs, fs, error, exit_status, images, xml_content,
                   pending, copied>>

\* create_xml_file, lines 76-118, called by main (lines 23-26) or directly:
\* the images are enumerated, the lines built and the file written.  open()
\* raises when the target directory does not exist.
CreateXmlFile ==
    /\ pc = "create_xml_file"
    /\ \E listing \in glob_all_extensions(fs, images_directory_path, extensions) :
        /\ images' = listing
        /\ xml_content' = XmlContent(listing, image_duration,
                                     transition_duration, target_directory_path)
    /\ IF target_directory_path \notin dirs
       THEN /\ Raise("FileNotFoundError")
            /\ fs' = fs
       ELSE /\ fs' = write_xml_file(fs, target_directory_path, xml_content')
            /\ pc' = IF entry = "main" THEN "glob" ELSE "returned"
            /\ UNCHANGED <<error, exit_status>>
    /\ UNCHANGED <<inputs, target_directory_path, dirs, pending, copied>>

\* main, line 29: images_directory_path.glob("*") scans the directory.
CopyGlob ==
    /\ pc = "glob"
    /\ pending' = GlobAll(fs, images_directory_path)
    /\ pc' = "copy"
    /\ UNCHANGED <<inputs, target_directory_path, fs, dirs, error,
                   exit_status, images, xml_content, copied>>

\* main, lines 29-31: the next entry the scan yields is given to
\* shutil.copy, which refuses a directory and a file copied onto itself.
CopyFile ==
    /\ pc = "copy"
    /\ \E image_path \in pending :
        LET target_path == JoinPath(target_directory_path, image_path.name)
        IN  /\ pending' = pending \ {image_path}
            /\ copied' = Append(copied, image_path)
            /\ IF Lookup(fs, image_path).kind = "dir"
               THEN /\ Raise("IsADirectoryError")
                    /\ fs' = fs
               ELSE IF target_path = image_path
               THEN /\ Raise("SameFileError")
                    /\ fs' = fs
               ELSE /\ fs' = CopyData(fs, image_path, target_path)
                    /\ UNCHANGED <<pc, error, exit_status>>
    /\ UNCHANGED <<inputs, target_directory_path, dirs, images, xml_content>>

\* main, lines 32-34: the loop is over; main returns 0.
Return ==
    /\ pc = "copy"
    /\ pending = {}
    /\ pc' = "done"
    /\ exit_status' = 0
    /\ UNCHANGED <<inputs, target_directory_path, fs, dirs, error, images,
                   xml_content, pending, copied>>

Next ==
    \/ ParseArguments
    \/ Mkdir
    \/ CreateXmlFile
    \/ CopyGlob
    \/ CopyFile
    \/ Return

Spec == Init /\ [][Next]_vars

\* ------------------------------------------------------------- reading the descriptor
\* create_xml_file has built its lines.
Built == xml_content # <<>>

IsFile(line) == line.text = "<file>{}</file>\n"
IsFrom(line) == line.text = "<from>{}</from>\n"
IsTo(line) == line.text = "<to>{}</to>\n"
IsStatic(line) == line.text = "<static>\n"
IsTransition(line) == line.text = "<transition>\n"
HasPath(line) == IsFile(line) \/ IsFrom(line) \/ IsTo(line)

StaticFiles == SelectSeq(xml_content, IsFile)
TransitionFroms == SelectSeq(xml_content, IsFrom)
TransitionTos == SelectSeq(xml_content, IsTo)
StaticCount == Len(SelectSeq(xml_content, IsStatic))
TransitionCount == Len(SelectSeq(xml_content, IsTransition))

\* The destination path of an image.
DestinationPath(image_path) ==
    JoinPath(target_directory_path, image_path.name)

\* The image files of the images directory when the run started.
SourceImages ==
    {p \in Listing(initial_fs, images_directory_path) :
        p.name.ext \in {"jpg", "jpeg", "png"}}

InvalidArguments ==
    \/ images_directory_path \notin initial_dirs
    \/ image_duration <= 0
    \/ transition_duration < 0

\* ------------------------------------------------------------- claims

\* C1: for every enumerated list of N >= 1 images, the i-th transition
\* (0-based) goes from the destination path of images[i] to the destination
\* path of images[(i+1) mod N]; the last transition leads back to the first
\* image, and a single image's transition leads to itself.
C1_CyclicPairing ==
    (Built /\ Len(images) >= 1) =>
        LET N == Len(images)
        IN  /\ Len(TransitionFroms) = N
            /\ Len(TransitionTos) = N
            /\ \A i \in 0 .. (N - 1) :
                /\ TransitionFroms[i + 1].path = DestinationPath(images[i + 1])
                /\ TransitionTos[i + 1].path =
                        DestinationPath(images[((i + 1) % N) + 1])
            /\ TransitionTos[N].path = DestinationPath(images[1])
            /\ N = 1 => TransitionFroms[1].path = TransitionTos[1].path

C1_Witness ==
    /\ Built
    /\ Len(images) = 3
    /\ TransitionTos[3].path = DestinationPath(images[1])
    /\ TransitionTos[1].path = DestinationPath(images[2])

\* C2: for every non-empty enumerated list of N images the descriptor holds
\* exactly N static and N transition segments, the static segments naming
\* the images in the list's order, and the list holds every image file of
\* the images directory once.
C2_SegmentCounts ==
    (Built /\ Len(images) >= 1) =>
        LET N == Len(images)
        IN  /\ StaticCount = N
            /\ TransitionCount = N
            /\ Len(StaticFiles) = N
            /\ \A i \in 1 .. N :
                /\ StaticFiles[i].path = DestinationPath(images[i])
                /\ TransitionFroms[i].path = DestinationPath(images[i])
            /\ {images[i] : i \in 1 .. N} = SourceImages
            /\ Cardinality(SourceImages) = N

C2_Witness ==
    /\ Built
    /\ Len(images) = 3
    /\ StaticCount = 3
    /\ TransitionCount = 3

\* The end-to-end scenario: a.jpg, b.png and c.jpeg in the images directory,
\* duration 5, transition 3, destination /dest/mydir, descriptor built.
Scenario ==
    /\ pc = "returned"
    /\ {p.name : p \in Listing(initial_fs, images_directory_path)} =
            {FileName("a", "jpg"), FileName("b", "png"), FileName("c", "jpeg")}
    /\ image_duration = 5
    /\ transition_duration = 3
    /\ target_directory_path = Dir("/dest", "mydir")

\* The (from, to) file names of the transitions, in order.
Pairing ==
    [i \in 1 .. Len(TransitionFroms) |->
        <<TransitionFroms[i].path.name, TransitionTos[i].path.name>>]

ScenarioPaths ==
    /\ StaticCount = 3
    /\ TransitionCount = 3
    /\ \A i \in 1 .. Len(xml_content) :
        HasPath(xml_content[i]) =>
            xml_content[i].path.dir = Dir("/dest", "mydir")

\* C3 as claimed: in the scenario the descriptor has 3 static/transition
\* pairs, paired (a->b), (b->c), (c->a), every path under /dest/mydir.
C3_Claimed ==
    Scenario =>
        /\ ScenarioPaths
        /\ Pairing = << <<FileName("a", "jpg"), FileName("b", "png")>>,
                        <<FileName("b", "png"), FileName("c", "jpeg")>>,
                        <<FileName("c", "jpeg"), FileName("a", "jpg")>> >>

\* C3 amended: in the scenario the descriptor has 3 static/transition pairs,
\* paired in the enumeration's order (jpg, then jpeg, then png):
\* (a->c), (c->b), (b->a), every path under /dest/mydir.
C3_EnumerationOrder ==
    Scenario =>
        /\ ScenarioPaths
        /\ Pairing = << <<FileName("a", "jpg"), FileName("c", "jpeg")>>,
                        <<FileName("c", "jpeg"), FileName("b", "png")>>,
                        <<FileName("b", "png"), FileName("a", "jpg")>> >>

C3_Witness ==
    /\ Scenario
    /\ Len(Pairing) = 3
    /\ Exists(fs, xml_file_path(Dir("/dest", "mydir")))

\* C4: in a run of main with an invalid argument (the images path is no
\* directory, image duration <= 0, transition duration < 0) the file system
\* is never changed: no directory is created, no descriptor is built or
\* written and no file is copied.
C4_ValidationFirst ==
    (entry = "main" /\ InvalidArguments) =>
        /\ fs = initial_fs
        /\ dirs = initial_dirs
        /\ xml_content = <<>>
        /\ copied = <<>>
        /\ pc \in {"main", "raised"}

C4_Witness ==
    /\ entry = "main"
    /\ pc = "raised"
    /\ error = "ImageDurationError"
    /\ image_duration = 0
    /\ images_directory_path \in initial_dirs
    /\ fs = initial_fs

\* C5 as claimed: the copy step gives shutil.copy only files of the images
\* directory named *.jpg, *.jpeg or *.png, never another entry or a
\* subdirectory, and a run that completes has copied every such file.
C5_CopiesOnlyImages ==
    /\ \A i \in 1 .. Len(copied) :
        /\ copied[i].name.ext \in {"jpg", "jpeg", "png"}
        /\ Lookup(initial_fs, copied[i]).kind = "file"
    /\ pc = "done" => SourceImages \subseteq {copied[i] : i \in 1 .. Len(copied)}

DurationErrors == {"ImageDurationError", "TransitionDurationError"}

InvalidDurations == image_duration <= 0 \/ transition_duration < 0

\* create_xml_file has been called and has returned or raised.
BuilderCalled == entry = "create_xml_file" /\ pc # "create_xml_file"

\* The durations the descriptor renders are the arguments': the static
\* segments' image_duration * 60 as a float, the transitions'
\* transition_duration as an integer.
RendersDurations ==
    \A i \in 1 .. Len(xml_content) :
        xml_content[i].text = "<duration>{}</duration>\n" =>
            \/ /\ xml_content[i].float
               /\ xml_content[i].number = image_duration * 60
            \/ /\ ~xml_content[i].float
               /\ xml_content[i].number = transition_duration

\* C6 as claimed: create_xml_file called with image duration <= 0 or
\* transition duration < 0 raises a duration error and builds no descriptor.
C6_BuilderRejects ==
    (BuilderCalled /\ InvalidDurations) =>
        /\ error \in DurationErrors
        /\ ~Built

\* C6 amended: the duration errors are raised by parse_arguments, so that a
\* run of main with image duration <= 0 or transition duration < 0 ends in
\* its validation and never calls create_xml_file; create_xml_file itself,
\* called with such durations, raises no duration error and builds the
\* descriptor with them.
C6_ValidatedUpstream ==
    /\ (entry = "main" /\ InvalidDurations) =>
        /\ pc \in {"main", "raised"}
        /\ ~Built
        /\ (pc = "raised" /\ images_directory_path \in initial_dirs) =>
                error = (IF image_duration <= 0 THEN "ImageDurationError"
                         ELSE "TransitionDurationError")
    /\ (BuilderCalled /\ InvalidDurations) =>
        /\ error \notin DurationErrors
        /\ Built
        /\ RendersDurations

C6_Witness ==
    /\ BuilderCalled
    /\ pc = "returned"
    /\ image_duration = 0
    /\ Len(images) >= 1

\* C7 as claimed: create_xml_file leaves the file system as it found it.
C7_NoSideEffects ==
    [][pc = "create_xml_file" => (fs' = fs /\ dirs' = dirs)]_vars

\* C7 amended: create_xml_file's only effect on the file system is the
\* descriptor file <target name>.xml in the target directory: it creates no
\* directory and creates, changes and removes no other entry.
C7_WritesOnlyDescriptor ==
    [][pc = "create_xml_file" =>
        /\ dirs' = dirs
        /\ {e \in fs' : e.path # xml_file_path(target_directory_path)}
            = {e \in fs : e.path # xml_file_path(target_directory_path)}
        /\ pc' # "raised" =>
            /\ Exists(fs', xml_file_path(target_directory_path))
            /\ Lookup(fs', xml_file_path(target_directory_path)).lines
                    = xml_content']_vars

C7_Witness ==
    /\ pc \in {"glob", "returned"}
    /\ Len(images) >= 1
    /\ Listing(fs, target_directory_path) \ {xml_file_path(target_directory_path)} # {}
    /\ Exists(fs, xml_file_path(target_directory_path))
    /\ ~Exists(initial_fs, xml_file_path(target_directory_path))
    /\ Lookup(fs, xml_file_path(target_directory_path)).lines = xml_content

\* C8 as claimed: a run of main on an empty images directory (with valid
\* durations) builds a descriptor of the header followed directly by the
\* terminator, gives no file to shutil.copy, never fails and ends with
\* exit status 0.
C8_EmptyDirectory ==
    (/\ entry = "main"
     /\ ~InvalidArguments
     /\ Listing(initial_fs, images_directory_path) = {}) =>
        /\ Built => xml_content = Header \o Terminator
        /\ StaticCount = 0
        /\ TransitionCount = 0
        /\ copied = <<>>
        /\ pc # "raised"
        /\ pc = "done" => exit_status = 0

\* The path lies in the images directory.
PathInSource(path) == path.dir = images_directory_path

\* C9 as claimed: every path of the descriptor is the destination directory
\* joined with an enumerated image's name, and none is a path in the images
\* directory.
C9_NeverSourcePaths ==
    Built =>
        \A i \in 1 .. Len(xml_content) :
            HasPath(xml_content[i]) =>
                /\ \E k \in 1 .. Len(images) :
                    xml_content[i].path = DestinationPath(images[k])
                /\ ~PathInSource(xml_content[i].path)

\* C9 amended: every path of the descriptor is the destination directory
\* joined with an enumerated image's name; it is a path in the images
\* directory only when the images directory is the destination directory.
C9_DestinationPaths ==
    Built =>
        \A i \in 1 .. Len(xml_content) :
            HasPath(xml_content[i]) =>
                /\ \E k \in 1 .. Len(images) :
                    xml_content[i].path = DestinationPath(images[k])
                /\ xml_content[i].path.dir = target_directory_path
                /\ PathInSource(xml_content[i].path) =>
                        images_directory_path = target_directory_path

C9_Witness ==
    /\ Built
    /\ Len(images) >= 2
    /\ images_directory_path # target_directory_path
    /\ \A i \in 1 .. Len(xml_content) :
        HasPath(xml_content[i]) => ~PathInSource(xml_content[i].path)

\* C10 as claimed: after a run of main that completes, <target name>.xml in
\* the target directory holds the lines create_xml_file built in the run.
C10_DescriptorSurvives ==
    pc = "done" =>
        /\ Exists(fs, xml_file_path(target_directory_path))
        /\ Lookup(fs, xml_file_path(target_directory_path)).lines = xml_content

====
